---- MODULE Spec2Model ----
(***************************************************************************)
(* A model of transitfit: the TransitModel inference engine (fitter.py)    *)
(* over a LightCurve (lightcurve.py).                                      *)
(*                                                                         *)
(* Numbers.  Every physical quantity (times, fluxes, parameters) is an     *)
(* integer count of 1/ParamScale units, so that 1.0 is ParamScale.  The    *)
(* argument of periastron is a count of quarter turns, whose sine is       *)
(* exact.  A log-probability is an exact real of the form                  *)
(*      n/d + log(ln/ld)       (k = "fin")       or  -infinity (k = "-inf")*)
(* with n/d and ln/ld rationals in lowest terms, which is closed under the *)
(* sums the code forms.  Division follows numpy's float semantics: x/0 is  *)
(* +inf, -inf or nan and raises nothing.                                   *)
(***************************************************************************)
EXTENDS Integers, Sequences, FiniteSets, TLC

VARIABLES tm, op, arg, physOut, outcome, objs, hist, file, last

vars == <<tm, op, arg, physOut, outcome, objs, hist, file, last>>

inferVars == <<tm, op, arg, physOut, outcome>>
storeVars == <<objs, hist, file, last>>

(***************************************************************************)
(* Bounds and constants                                                    *)
(***************************************************************************)
ParamScale == 2
NObs == 6
KNum == 5286
KDen == 100

\* Python's None, and a set value
None == <<>>
Some(v) == <<v>>

(***************************************************************************)
(* Exact arithmetic                                                        *)
(***************************************************************************)
Abs(x) == IF x < 0 THEN -x ELSE x

RECURSIVE GCD(_, _)
GCD(a, b) == IF b = 0 THEN a ELSE GCD(b, a % b)

Cube(x) == x * x * x

Fin(n0, d0, l0, m0) ==
    LET g == GCD(Abs(n0), d0)
        h == GCD(l0, m0)
    IN  [k |-> "fin", n |-> n0 \div g, d |-> d0 \div g,
         ln |-> l0 \div h, ld |-> m0 \div h]

Rat(n0, d0) == Fin(n0, d0, 1, 1)

NegInf == [k |-> "-inf", n |-> 0, d |-> 1, ln |-> 1, ld |-> 1]

isfinite(v) == v.k = "fin"

\* v + w on the extended reals; neither is +inf or nan here.
Add(v, w) ==
    IF v.k = "-inf" \/ w.k = "-inf" THEN NegInf
    ELSE Fin(v.n * w.d + w.n * v.d, v.d * w.d, v.ln * w.ln, v.ld * w.ld)

Neg(v) ==
    IF v.k = "-inf" THEN [NegInf EXCEPT !.k = "+inf"]
    ELSE [v EXCEPT !.n = -v.n, !.ln = v.ld, !.ld = v.ln]

Ret(v, c) == [kind |-> "ret", val |-> v, calls |-> c]
Raise(e, c) == [kind |-> "raise", val |-> e, calls |-> c]

(***************************************************************************)
(* lightcurve.py                                                           *)
(***************************************************************************)
\* utils.t_folded: the time since the nearest transit,
\* (t + per/2 - ep) % per - per/2, which lies in [-per/2, per/2).  The
\* operator yields twice that value, so that an odd per needs no fraction.
t_folded(t, per, ep) == (((2 * (t - ep)) + per) % (2 * per)) - per

\* Planet.t_folded
Planet_t_folded(pl, t) == t_folded(t, pl.period, pl.epoch)

\* Planet.t_close: |t_folded| < width*duration
t_close(pl, t, width) == Abs(Planet_t_folded(pl, t)) < 2 * width * pl.duration

RECURSIVE Unmasked(_, _)
Unmasked(s, mask) ==
    IF s = <<>> THEN <<>>
    ELSE (IF Head(mask) THEN <<>> ELSE <<Head(s)>>)
         \o Unmasked(Tail(s), Tail(mask))

\* LightCurve.t / .time, .flux, .flux_err: the unmasked subset
lc_t(lc) == Unmasked(lc.time, lc.mask)
lc_flux(lc) == Unmasked(lc.flux, lc.mask)
lc_flux_err(lc) == Unmasked(lc.flux_err, lc.mask)
n_planets(lc) == Len(lc.planets)

\* lc.close(i, width): True at index j iff t[j] is within width*duration of
\* planet i's transit.
lc_close(lc, i, width) ==
    [j \in 1..Len(lc_t(lc)) |-> t_close(lc.planets[i], lc_t(lc)[j], width)]

(***************************************************************************)
(* fitter.py: the flux model                                               *)
(***************************************************************************)
Call(fn, a) == [fn |-> fn, args |-> a]

Range(s) == {s[j] : j \in DOMAIN s}

RECURSIVE Select(_, _, _)
\* s[b] for a boolean index b: the entries of s at the True places, in order
Select(s, b, j) ==
    IF j > Len(s) THEN <<>>
    ELSE (IF b[j] THEN <<s[j]>> ELSE <<>>) \o Select(s, b, j + 1)

\* the number of True places of b among 1..j
Rank(b, j) == Cardinality({i \in 1..j : b[i]})

\* TransitModel.continuum: p[0]*ones_like(t)
continuum(p0, t) == [j \in 1..Len(t) |-> p0]

\* the loop of evaluate keeping only the last planet's window (= for +=)
evaluate_close_last(lc, width) ==
    [j \in 1..Len(lc_t(lc)) |->
        n_planets(lc) > 0 /\ lc_close(lc, n_planets(lc), width)[j]]

\* the loop of evaluate: close += lc.close(i, width) over every planet
evaluate_close(lc, width) ==
    [j \in 1..Len(lc_t(lc)) |->
        \E i \in 1..n_planets(lc) : lc_close(lc, i, width)[j]]

\* utils.lc_eval, the transit-physics model: opaque.  phys is what this call
\* of it produces: the invalid-parameters signal, or one flux per time.
lc_eval(params, times, texp, phys) ==
    IF phys.sig = "InvalidParameterError"
    THEN Raise(phys.sig, <<Call("lc_eval", <<params, times, texp>>)>>)
    ELSE Ret(phys.flux, <<Call("lc_eval", <<params, times, texp>>)>>)

\* TransitModel.evaluate
evaluate(t_m, p, phys) ==
    LET t == lc_t(t_m.lc)
        f == continuum(p[1], t)
        close == evaluate_close(t_m.lc, t_m.width)
        r == lc_eval(Tail(p), Select(t, close, 1), t_m.lc.texp, phys)
    IN  IF r.kind = "raise" THEN r
        ELSE Ret([j \in 1..Len(t) |->
                    IF close[j] THEN r.val[Rank(close, j)] ELSE f[j]],
                 r.calls)

(***************************************************************************)
(* fitter.py: likelihood, prior, posterior                                 *)
(***************************************************************************)
RECURSIVE SumChi2(_, _, _, _)
\* (-0.5 * (flux_model - flux)**2 / flux_err**2).sum()
SumChi2(m, o, err, j) ==
    IF j > Len(m) THEN Rat(0, 1)
    ELSE Add(Rat(-((m[j] - o[j]) * (m[j] - o[j])), 2 * err[j] * err[j]),
             SumChi2(m, o, err, j + 1))

\* TransitModel.lnlike with the except clause left out
lnlike_uncaught(t_m, p, phys) ==
    LET ev == evaluate(t_m, p, phys)
        c == <<Call("evaluate", <<p>>)>> \o ev.calls
    IN  IF ev.kind = "raise" THEN Raise(ev.val, c)
        ELSE Ret(SumChi2(ev.val, lc_flux(t_m.lc), lc_flux_err(t_m.lc), 1), c)

\* TransitModel.lnlike
lnlike(t_m, p, phys) ==
    LET ev == evaluate(t_m, p, phys)
        c == <<Call("evaluate", <<p>>)>> \o ev.calls
    IN  IF ev.kind = "raise" THEN Ret(NegInf, c)
        ELSE Ret(SumChi2(ev.val, lc_flux(t_m.lc), lc_flux_err(t_m.lc), 1), c)

\* np.sin(w), w a count of quarter turns
Sin(w) == CASE w % 4 = 0 -> 0 [] w % 4 = 1 -> 1 [] w % 4 = 2 -> 0 [] OTHER -> -1

\* factor = 1.0, or (1 + e*sin(w)) / (1 - e*e) when e > 0: a float [k, n, d]
\* with d > 0, k one of "fin", "+inf", "-inf", "nan".
factor(e, w) ==
    LET num == ParamScale + e * Sin(w)
        den == ParamScale * ParamScale - e * e
    IN  IF e <= 0 THEN [k |-> "fin", n |-> 1, d |-> 1]
        ELSE IF den = 0
             THEN [k |-> IF num > 0 THEN "+inf" ELSE IF num < 0 THEN "-inf" ELSE "nan",
                   n |-> 0, d |-> 1]
        ELSE LET g == GCD(Abs(ParamScale * num), Abs(den))
             IN  IF den > 0
                 THEN [k |-> "fin", n |-> (ParamScale * num) \div g, d |-> den \div g]
                 ELSE [k |-> "fin", n |-> (-(ParamScale * num)) \div g, d |-> (-den) \div g]

\* arg > 1.0 for arg = b*factor/aR, aR = (rhostar*G*(period*DAY)**2/(3*pi))**(1/3)
\* and rhostar >= 0; G*DAY**2/(3*pi) is KNum/KDen.  A nan compares False.
arg_gt_1(rhostar, period, b, e, w) ==
    LET fc == factor(e, w)
        aR3n == KNum * rhostar * period * period
        aR3d == KDen * Cube(ParamScale)
        g == GCD(Abs(b * fc.n), ParamScale * fc.d)
        xn == (b * fc.n) \div g
        xd == (ParamScale * fc.d) \div g
    IN  CASE fc.k = "nan" -> FALSE
          [] fc.k = "+inf" -> b > 0
          [] fc.k = "-inf" -> b < 0
          [] OTHER -> IF aR3n = 0 THEN xn > 0
                      ELSE xn > 0 /\ Cube(xn) * aR3d > aR3n * Cube(xd)

q_rejected(q1, q2) == ~(0 <= q1 /\ q1 <= ParamScale /\ 0 <= q2 /\ q2 <= ParamScale)
dilution_rejected(dilution) == ~(0 <= dilution /\ dilution < ParamScale)
ecc_rejected_closed(e) == ~(0 <= e /\ e <= ParamScale)
ecc_rejected(e) == ~(0 <= e /\ e < ParamScale)

RECURSIVE lnprior_loop(_, _, _, _)
\* the body of lnprior's loop for planet i (from 0) and those after it
lnprior_loop(lc, p, i, tot) ==
    IF i >= n_planets(lc) THEN tot
    ELSE
    LET rhostar == p[2]
        period == p[6 + i * 6]
        epoch == p[7 + i * 6]
        b == p[8 + i * 6]
        rprs == p[9 + i * 6]
        e == p[10 + i * 6]
        w == p[11 + i * 6]
        prior_p == lc.planets[i + 1]._period
        prior_ep == lc.planets[i + 1]._epoch
    IN  IF arg_gt_1(rhostar, period, b, e, w) THEN NegInf
        ELSE IF period <= 0 THEN NegInf
        ELSE IF ecc_rejected(e) THEN NegInf
        ELSE IF b < 0 THEN NegInf
        ELSE IF rprs <= 0 THEN NegInf
        ELSE lnprior_loop(lc, p, i + 1,
               Add(Add(Add(tot,
                   Rat(-((period - prior_p[1]) * ParamScale),
                       2 * prior_p[2] * prior_p[2])),
                   Rat(-((epoch - prior_ep[1]) * ParamScale),
                       2 * prior_ep[2] * prior_ep[2])),
                   Fin(0, 1, ParamScale, rprs)))

\* TransitModel.lnprior
lnprior(t_m, p) ==
    LET rhostar == p[2]
        q1 == p[3]
        q2 == p[4]
        dilution == p[5]
    IN  IF q_rejected(q1, q2) THEN NegInf
        ELSE IF rhostar < 0 THEN NegInf
        ELSE IF dilution_rejected(dilution) THEN NegInf
        ELSE lnprior_loop(t_m.lc, p, 0, Rat(0, 1))

\* TransitModel.lnpost evaluating the likelihood whatever the prior is
lnpost_eager(t_m, p, phys) ==
    LET prior == lnprior(t_m, p)
        like == lnlike(t_m, p, phys)
        c == <<Call("lnprior", <<p>>), Call("lnlike", <<p>>)>> \o like.calls
    IN  IF isfinite(prior) THEN Ret(Add(prior, like.val), c) ELSE Ret(prior, c)

\* TransitModel.lnpost
lnpost(t_m, p, phys) ==
    LET prior == lnprior(t_m, p)
        like == lnlike(t_m, p, phys)
    IN  IF isfinite(prior)
        THEN Ret(Add(prior, like.val),
                 <<Call("lnprior", <<p>>), Call("lnlike", <<p>>)>> \o like.calls)
        ELSE Ret(prior, <<Call("lnprior", <<p>>)>>)

\* TransitModel.__call__
call(t_m, p, phys) ==
    LET r == lnpost(t_m, p, phys) IN [r EXCEPT !.calls = <<Call("lnpost", <<p>>)>> \o @]

\* TransitModel.cost
cost(t_m, p, phys) ==
    LET r == lnpost(t_m, p, phys)
    IN  Ret(Neg(r.val), <<Call("lnpost", <<p>>)>> \o r.calls)


(***************************************************************************)
(* The light curves and parameter vectors the inference calls are tried on *)
(***************************************************************************)
\* Planet(period, epoch, duration), with the discovery priors (mean, error)
\* lnprior reads from it
PlanetA == [period |-> 8, epoch |-> 2, duration |-> 2,
            _period |-> <<8, 2>>, _epoch |-> <<2, 1>>]
PlanetB == [period |-> 6, epoch |-> 6, duration |-> 1,
            _period |-> <<6, 1>>, _epoch |-> <<6, 2>>]

\* LightCurve(time, flux, flux_err, mask, texp, planets, detrend=False)
LightCurve(pls, msk) ==
    [cls |-> "LightCurve",
     time |-> [j \in 1..NObs |-> 2 * (j - 1)],
     flux |-> [j \in 1..NObs |-> IF j % 3 = 0 THEN 1 ELSE 2],
     flux_err |-> [j \in 1..NObs |-> IF j % 4 = 0 THEN 2 ELSE 1],
     mask |-> msk,
     texp |-> 2,
     planets |-> pls]

LightCurves ==
    {LightCurve(pls, msk) :
        pls \in {<<>>, <<PlanetA>>, <<PlanetA, PlanetB>>},
        msk \in {[j \in 1..NObs |-> FALSE], [j \in 1..NObs |-> j = 2]}}

\* TransitModel.__init__
TransitModel(lc, width, continuum_method) ==
    [lc |-> lc, width |-> width, continuum_method |-> continuum_method,
     _bestfit |-> None, _samples |-> None, sampler |-> None]

\* the values tried at place j (from 1) of a parameter vector
Vals(j) ==
    IF j = 1 THEN {2, 3}
    ELSE IF j = 2 THEN {-1, 0, 2, 4}
    ELSE IF j \in {3, 4} THEN {-1, 0, 1, 2, 3}
    ELSE IF j = 5 THEN {-1, 0, 1, 2}
    ELSE CASE (j - 6) % 6 = 0 -> {-8, 0, 6, 8, 10}
           [] (j - 6) % 6 = 1 -> {1, 2, 3}
           [] (j - 6) % 6 = 2 -> {-1, 0, 1, 24}
           [] (j - 6) % 6 = 3 -> {-1, 0, 1, 4}
           [] (j - 6) % 6 = 4 -> {-1, 0, 1, 2, 3}
           [] OTHER -> {0, 1, 2, 3}

RECURSIVE RefBlocks(_, _, _)
RefBlocks(lc, i, blk) ==
    IF i > n_planets(lc) THEN <<>>
    ELSE <<lc.planets[i]._period[1]>> \o blk \o RefBlocks(lc, i + 1, blk)

\* vectors lnprior accepts: circular orbits, and eccentric ones
Refs(lc) ==
    {<<2, 2, 1, 1, 0>> \o RefBlocks(lc, 1, blk) :
        blk \in {<<2, 1, 1, 0, 0>>, <<2, 0, 1, 1, 1>>}}

\* the vectors that differ from an accepted one at one place at most
Params1(lc) ==
    {[r EXCEPT ![j] = v] : <<r, j, v>> \in
        UNION {{<<r, j, v>> : v \in Vals(j)} : <<r, j>> \in
            {<<r, j>> : r \in Refs(lc), j \in 1..(5 + 6 * n_planets(lc))}}}

\* the vectors that differ from an accepted one at two places at most
Params2(lc) ==
    UNION {{[q EXCEPT ![j] = v] : <<j, v>> \in
              UNION {{<<j, v>> : v \in Vals(j)} : j \in 1..Len(q)}} :
           q \in Params1(lc)}

\* what one call of the transit-physics model can produce for n times
PhysOuts(n) ==
    {[sig |-> "InvalidParameterError", flux |-> <<>>]} \cup
    {[sig |-> "flux", flux |-> f] :
        f \in {[j \in 1..n |-> v] : v \in {1, 2}} \cup {[j \in 1..n |-> 1 + (j % 2)]}}

NoPhys == [sig |-> "none", flux |-> <<>>]

NClose(t_m) == Len(Select(lc_t(t_m.lc), evaluate_close(t_m.lc, t_m.width), 1))

NoOutcome == [kind |-> "none", val |-> None, calls |-> <<>>]

(***************************************************************************)
(* fitter.py: samples, fits and persistence                                *)
(***************************************************************************)
\* the names the caller binds models to
Names == {"m"}
NChains == 2
Paths == {"a", "b"}

\* one row of sampler.flatchain for a vector of ndim parameters
Row(c, ndim) == [j \in 1..ndim |-> 10 * c + j]

\* the flattened draw history a sampling run leaves: iterations x walkers rows
Flatchain(c, lc) ==
    <<Row(c, 5 + 6 * n_planets(lc)), Row(c + 1, 5 + 6 * n_planets(lc))>>

\* '{}_{}'.format(par, i+1)
ColName(par, i) == par \o "_" \o ToString(i)

\* TransitModel._make_samples: the table (column name -> column) of the chain
_make_samples(o) ==
    LET chain == o.sampler[1].flatchain
        star == <<"flux_zp", "rho", "q1", "q2", "dilution">>
        pars == <<"period", "epoch", "b", "rprs", "ecc", "omega">>
        cols == {<<star[k], k - 1>> : k \in 1..5} \cup
                {<<ColName(pars[ij[2] + 1], ij[1] + 1), 5 + ij[2] + ij[1] * 6>> :
                    ij \in (0..(n_planets(o.lc) - 1)) \X (0..5)}
        df == [name \in {c[1] : c \in cols} |->
                 LET k == (CHOOSE c \in cols : c[1] = name)[2]
                 IN  [r \in 1..Len(chain) |-> chain[r][k + 1]]]
    IN  [o EXCEPT !._samples = Some(df)]

\* the samples property raising when either the sampler or the table is missing
samples_either(o) ==
    IF o.sampler = None \/ o._samples = None
    THEN [kind |-> "AttributeError", val |-> None, obj |-> o]
    ELSE [kind |-> "ret", val |-> o._samples, obj |-> o]

\* TransitModel.samples (the property)
samples(o) ==
    IF o.sampler = None /\ o._samples = None
    THEN [kind |-> "AttributeError", val |-> None, obj |-> o]
    ELSE IF o._samples # None
         THEN [kind |-> "ret", val |-> o._samples, obj |-> o]
         ELSE [kind |-> "ret", val |-> _make_samples(o)._samples,
               obj |-> _make_samples(o)]

\* TransitModel.fit_leastsq: the optimizer's best vector is kept
fit_leastsq(o, x) == [o EXCEPT !._bestfit = Some(x)]

\* TransitModel.fit_emcee: the sampler of the run is kept
fit_emcee(o, chain) == [o EXCEPT !.sampler = Some([flatchain |-> chain])]

\* the HDF file: whether it exists, and the group stored at each path
NoGroups == [q \in Paths |-> None]
NoFile == [exists |-> FALSE, nodes |-> NoGroups]

\* path in store
PathIn(f, path) == f.nodes[path] # None

\* lines 302-311 of save_hdf without the os.remove
save_hdf_conflict_keep(f, path, overwrite, append) ==
    IF f.exists /\ PathIn(f, path) /\ ~overwrite /\ ~append
    THEN [kind |-> "IOError", file |-> f]
    ELSE [kind |-> "ok", file |-> f]

\* lines 302-311 of save_hdf: the test for an existing path
save_hdf_conflict(f, path, overwrite, append) ==
    IF f.exists /\ PathIn(f, path)
    THEN IF overwrite THEN [kind |-> "ok", file |-> NoFile]
         ELSE IF ~append THEN [kind |-> "IOError", file |-> f]
         ELSE [kind |-> "ok", file |-> f]
    ELSE [kind |-> "ok", file |-> f]

\* lc.save_hdf(filename, path=path, append=True): the series, under the path
lc_save_hdf(g, lc) == [g EXCEPT !.lc = Some(lc)]

\* lc_type.load_hdf(filename, path=path)
lc_load_hdf(g) == g.lc[1]

\* TransitModel.save_hdf
save_hdf(o, f, path, overwrite, append) ==
    LET pre == save_hdf_conflict(f, path, overwrite, append)
        s == samples(o)
        g == [samples |-> s.val[1],
              attrs |-> [width |-> o.width,
                         continuum_method |-> o.continuum_method,
                         lc_type |-> o.lc.cls],
              lc |-> None]
    IN  IF pre.kind = "IOError" THEN [kind |-> "IOError", obj |-> o, file |-> f]
        ELSE IF s.kind = "AttributeError"
             THEN [kind |-> "AttributeError", obj |-> o, file |-> pre.file]
        ELSE [kind |-> "ok", obj |-> s.obj,
              file |-> [exists |-> TRUE,
                        nodes |-> [pre.file.nodes EXCEPT
                                     ![path] = Some(lc_save_hdf(g, o.lc))]]]

\* TransitModel.load_hdf building the model with the default width
load_hdf_default_width(f, path) ==
    IF ~f.exists
    THEN [kind |-> "KeyError", mod |-> None, file |-> [f EXCEPT !.exists = TRUE]]
    ELSE IF ~PathIn(f, path) THEN [kind |-> "KeyError", mod |-> None, file |-> f]
    ELSE LET g == f.nodes[path][1]
         IN  [kind |-> "ok", file |-> f,
              mod |-> Some([TransitModel(lc_load_hdf(g), 2, g.attrs.continuum_method)
                               EXCEPT !._samples = Some(g.samples)])]

\* TransitModel.load_hdf; opening the store creates a missing file
load_hdf(f, path) ==
    IF ~f.exists
    THEN [kind |-> "KeyError", mod |-> None, file |-> [f EXCEPT !.exists = TRUE]]
    ELSE IF ~PathIn(f, path) THEN [kind |-> "KeyError", mod |-> None, file |-> f]
    ELSE LET g == f.nodes[path][1]
         IN  [kind |-> "ok", file |-> f,
              mod |-> Some([TransitModel(lc_load_hdf(g), g.attrs.width,
                                         g.attrs.continuum_method)
                               EXCEPT !._samples = Some(g.samples)])]

(***************************************************************************)
(* Models, fits and the file as a state machine.  objs[i] is the model the  *)
(* caller's i-th name is bound to; hist records how that model was made    *)
(* and whether a sampling run has completed on it.                         *)
(***************************************************************************)
StoreLc == LightCurve(<<PlanetA>>, [j \in 1..NObs |-> FALSE])
StoreLcs == {StoreLc, LightCurve(<<>>, [j \in 1..NObs |-> FALSE])}

Did(name, i, path, overwrite, append, existed, others, kind, val) ==
    [op |-> name, obj |-> i, path |-> path, overwrite |-> overwrite,
     append |-> append, existed |-> existed, others |-> others,
     kind |-> kind, val |-> val]

StoreIdle ==
    /\ objs = [i \in Names |-> None]
    /\ hist = [i \in Names |-> None]
    /\ file = NoFile
    /\ last = Did("init", "", "", FALSE, FALSE, FALSE, FALSE, "ok", None)

InferIdle ==
    /\ tm = TransitModel(StoreLc, 2, "constant")
    /\ op = "idle"
    /\ arg = <<>>
    /\ physOut = NoPhys
    /\ outcome = NoOutcome

\* m = TransitModel(lc, width=w): the name i is bound to a new model
Construct(i, lc, w) ==
    /\ objs' = [objs EXCEPT ![i] = Some(TransitModel(lc, w, "constant"))]
    /\ hist' = [hist EXCEPT ![i] = Some([origin |-> "init", ran |-> FALSE])]
    /\ last' = Did("__init__", i, "", FALSE, FALSE, FALSE, FALSE, "ok", None)
    /\ UNCHANGED <<file, inferVars>>

FitLeastsq(i) ==
    /\ objs[i] # None
    /\ objs' = [objs EXCEPT ![i] =
                  Some(fit_leastsq(objs[i][1], CHOOSE r \in Refs(objs[i][1].lc) : TRUE))]
    /\ last' = Did("fit_leastsq", i, "", FALSE, FALSE, FALSE, FALSE, "ok", None)
    /\ UNCHANGED <<hist, file, inferVars>>

FitEmcee(i, c) ==
    /\ objs[i] # None
    /\ objs' = [objs EXCEPT ![i] =
                  Some(fit_emcee(objs[i][1], Flatchain(c, objs[i][1].lc)))]
    /\ hist' = [hist EXCEPT ![i] = Some([hist[i][1] EXCEPT !.ran = TRUE])]
    /\ last' = Did("fit_emcee", i, "", FALSE, FALSE, FALSE, FALSE, "ok", None)
    /\ UNCHANGED <<file, inferVars>>

SamplesAccess(i) ==
    /\ objs[i] # None
    /\ LET r == samples(objs[i][1])
       IN  /\ objs' = [objs EXCEPT ![i] = Some(r.obj)]
           /\ last' = Did("samples", i, "", FALSE, FALSE, FALSE, FALSE, r.kind, r.val)
    /\ UNCHANGED <<hist, file, inferVars>>

SaveHdf(i, path, overwrite, append) ==
    /\ objs[i] # None
    /\ LET r == save_hdf(objs[i][1], file, path, overwrite, append)
       IN  /\ objs' = [objs EXCEPT ![i] = Some(r.obj)]
           /\ file' = r.file
           /\ last' = Did("save_hdf", i, path, overwrite, append,
                          file.exists /\ PathIn(file, path),
                          \E q \in Paths \ {path} : PathIn(file, q),
                          r.kind, None)
    /\ UNCHANGED <<hist, inferVars>>

\* m = TransitModel.load_hdf(filename, path): the name i is bound to the result
LoadHdf(i, path) ==
    /\ LET r == load_hdf(file, path)
       IN  /\ file' = r.file
           /\ IF r.kind = "ok"
              THEN /\ objs' = [objs EXCEPT ![i] = r.mod]
                   /\ hist' = [hist EXCEPT ![i] = Some([origin |-> "load", ran |-> FALSE])]
              ELSE UNCHANGED <<objs, hist>>
           /\ last' = Did("load_hdf", i, path, FALSE, FALSE, FALSE, FALSE, r.kind, None)
    /\ UNCHANGED inferVars

StoreNext ==
    \/ \E i \in Names, lc \in StoreLcs, w \in {1, 2} : Construct(i, lc, w)
    \/ \E i \in Names : FitLeastsq(i)
    \/ \E i \in Names, c \in 1..NChains : FitEmcee(i, c)
    \/ \E i \in Names : SamplesAccess(i)
    \/ \E i \in Names, path \in Paths, overwrite \in BOOLEAN, append \in BOOLEAN :
          SaveHdf(i, path, overwrite, append)
    \/ \E i \in Names, path \in Paths : LoadHdf(i, path)

InitStore == InferIdle /\ StoreIdle

SpecStore == InitStore /\ [][StoreNext]_vars

(***************************************************************************)
(* The inference calls as a state machine: the initial state draws the     *)
(* model, the parameter vector and what the physics model will answer; one *)
(* step applies one method to them.                                        *)
(***************************************************************************)
InferInit ==
    /\ tm \in {TransitModel(lc, w, "constant") : lc \in LightCurves, w \in {1, 2}}
    /\ op = "init"
    /\ \/ arg \in Params2(tm.lc) /\ physOut = NoPhys
       \/ arg \in Params1(tm.lc) /\ physOut \in PhysOuts(NClose(tm))
    /\ outcome = NoOutcome

Invoke(name, r) ==
    /\ op = "init"
    /\ op' = name
    /\ outcome' = r
    /\ UNCHANGED <<tm, arg, physOut, storeVars>>

EvaluateCall ==
    physOut # NoPhys /\ Invoke("evaluate", evaluate(tm, arg, physOut))

LnlikeCall ==
    physOut # NoPhys /\ Invoke("lnlike", lnlike(tm, arg, physOut))

LnpriorCall ==
    Invoke("lnprior", Ret(lnprior(tm, arg), <<>>))

LnpostCall ==
    physOut # NoPhys /\ Invoke("lnpost", lnpost(tm, arg, physOut))

CallCall ==
    physOut # NoPhys /\ Invoke("__call__", call(tm, arg, physOut))

CostCall ==
    physOut # NoPhys /\ Invoke("cost", cost(tm, arg, physOut))

InferNext ==
    \/ EvaluateCall
    \/ LnlikeCall
    \/ LnpriorCall
    \/ LnpostCall
    \/ CallCall
    \/ CostCall

InitInfer == InferInit /\ StoreIdle

SpecInfer == InitInfer /\ [][InferNext]_vars


(***************************************************************************)
(* Claims about the inference calls (checked under SpecInfer)              *)
(***************************************************************************)
CalledFns == {c.fn : c \in Range(outcome.calls)}

PlanetArgs(p, i) ==
    [period |-> p[6 + i * 6], epoch |-> p[7 + i * 6], b |-> p[8 + i * 6],
     rprs |-> p[9 + i * 6], e |-> p[10 + i * 6], w |-> p[11 + i * 6]]

\* one of the conditions the specification lists for an impossible vector
Rejectable(lc, p) ==
    \/ p[3] < 0 \/ p[3] > ParamScale
    \/ p[4] < 0 \/ p[4] > ParamScale
    \/ p[2] < 0
    \/ p[5] < 0 \/ p[5] >= ParamScale
    \/ \E i \in 0..(n_planets(lc) - 1) :
          LET a == PlanetArgs(p, i)
          IN  a.period <= 0 \/ a.e < 0 \/ a.e >= ParamScale \/ a.b < 0 \/ a.rprs <= 0

\* C1: lnpost (and so __call__ and cost = -lnpost) evaluates the likelihood
\* exactly when the prior is finite: with a non-finite prior it returns that
\* prior and neither lnlike nor evaluate nor the physics model is invoked;
\* with a finite prior it returns lnprior + lnlike.
C1_PostShortCircuits ==
    op \in {"lnpost", "__call__", "cost"} =>
        LET prior == lnprior(tm, arg)
            expected == IF isfinite(prior)
                        THEN Add(prior, lnlike(tm, arg, physOut).val)
                        ELSE prior
        IN  /\ outcome.kind = "ret"
            /\ outcome.val = (IF op = "cost" THEN Neg(expected) ELSE expected)
            /\ "lnlike" \in CalledFns <=> isfinite(prior)
            /\ ~isfinite(prior) => CalledFns \cap {"lnlike", "evaluate", "lc_eval"} = {}

\* a limb-darkening coefficient above 1: lnpost returned -inf, likelihood unused
C1_Witness ==
    /\ op = "lnpost"
    /\ arg[3] > ParamScale
    /\ outcome.val = NegInf
    /\ "lnlike" \notin CalledFns

PassesChecks(lc, p) ==
    /\ ~Rejectable(lc, p)
    /\ \A i \in 0..(n_planets(lc) - 1) :
          LET a == PlanetArgs(p, i) IN ~arg_gt_1(p[2], a.period, a.b, a.e, a.w)

RECURSIVE GaussianPrior(_, _, _)
\* sum over candidates from i on of -1/2((period-mean)/sigma)^2
\* - 1/2((epoch-mean)/sigma)^2 - log(rprs)
GaussianPrior(lc, p, i) ==
    IF i >= n_planets(lc) THEN Rat(0, 1)
    ELSE LET a == PlanetArgs(p, i)
             pp == lc.planets[i + 1]._period
             pe == lc.planets[i + 1]._epoch
         IN  Add(Add(Add(Rat(-((a.period - pp[1]) * (a.period - pp[1])), 2 * pp[2] * pp[2]),
                         Rat(-((a.epoch - pe[1]) * (a.epoch - pe[1])), 2 * pe[2] * pe[2])),
                     Fin(0, 1, ParamScale, a.rprs)),
                 GaussianPrior(lc, p, i + 1))

\* C3: for a vector that passes every rejection check, lnprior returns the sum
\* over candidates of the Gaussian log-prior terms on period and epoch,
\* -1/2((x - mean)/sigma)^2, and the log-flat term -log(rprs).
C3_PriorIsGaussian ==
    (op = "lnprior" /\ PassesChecks(tm.lc, arg)) =>
        outcome.val = GaussianPrior(tm.lc, arg, 0)

RECURSIVE ProdErr2(_, _)
ProdErr2(err, j) == IF j > Len(err) THEN 1 ELSE err[j] * err[j] * ProdErr2(err, j + 1)

RECURSIVE Chi2Num(_, _, _, _, _)
Chi2Num(m, o, err, den, j) ==
    IF j > Len(err) THEN 0
    ELSE ((m[j] - o[j]) * (m[j] - o[j]) * (den \div (err[j] * err[j])))
         + Chi2Num(m, o, err, den, j + 1)

\* -1/2 sum ((model - observed)/error)^2 over the unmasked observations, over
\* the common denominator of the terms
ClosedFormLike(lc, m) ==
    LET keep == {j \in 1..Len(lc.time) : ~lc.mask[j]}
        idx == [r \in 1..Cardinality(keep) |->
                   CHOOSE j \in keep : Cardinality({i \in keep : i <= j}) = r]
        o == [r \in DOMAIN idx |-> lc.flux[idx[r]]]
        err == [r \in DOMAIN idx |-> lc.flux_err[idx[r]]]
        den == ProdErr2(err, 1)
    IN  Rat(-Chi2Num(m, o, err, den, 1), 2 * den)

\* C4: lnlike never lets the physics model's invalid-parameters signal out:
\* it returns -infinity when evaluate raises it, and otherwise the Gaussian
\* sum over evaluate's output, which is finite and at most 0.
C4_LikeHandlesInvalid ==
    op = "lnlike" =>
        LET ev == evaluate(tm, arg, physOut)
        IN  /\ outcome.kind = "ret"
            /\ ev.kind = "raise" => outcome.val = NegInf
            /\ ev.kind = "ret" =>
                  /\ outcome.val = ClosedFormLike(tm.lc, ev.val)
                  /\ isfinite(outcome.val)
                  /\ outcome.val.n <= 0
                  /\ outcome.val.ln = outcome.val.ld

\* the signal was raised inside evaluate and lnlike returned -inf
C4_Witness ==
    /\ op = "lnlike"
    /\ physOut.sig = "InvalidParameterError"
    /\ "lc_eval" \in CalledFns
    /\ outcome.kind = "ret"
    /\ outcome.val = NegInf

\* index j of the unmasked series is within width*duration of some transit
Near(t_m, j) ==
    \E i \in 1..n_planets(t_m.lc) :
        t_close(t_m.lc.planets[i], lc_t(t_m.lc)[j], t_m.width)

NearOnly(t_m, j, i) ==
    /\ t_close(t_m.lc.planets[i], lc_t(t_m.lc)[j], t_m.width)
    /\ \A h \in 1..n_planets(t_m.lc) \ {i} :
          ~t_close(t_m.lc.planets[h], lc_t(t_m.lc)[j], t_m.width)

\* C9: evaluate returns one flux per unmasked observation: the continuum p[0]
\* where the folded time is within width*duration of no candidate's transit,
\* and the physics model's output where it is within that of some candidate;
\* the physics model is called once, over those times, with p[1:] and texp.
C9_EvaluateWindows ==
    op = "evaluate" =>
        LET t == lc_t(tm.lc)
            n == Cardinality({j \in 1..Len(tm.lc.time) : ~tm.lc.mask[j]})
            nearT == Select(t, [j \in 1..Len(t) |-> Near(tm, j)], 1)
        IN  /\ outcome.calls = <<Call("lc_eval", <<Tail(arg), nearT, tm.lc.texp>>)>>
            /\ physOut.sig = "flux" =>
                  /\ outcome.kind = "ret"
                  /\ DOMAIN outcome.val = 1..n
                  /\ \A j \in 1..n :
                        outcome.val[j] =
                            IF Near(tm, j)
                            THEN physOut.flux[Cardinality({i \in 1..j : Near(tm, i)})]
                            ELSE arg[1]

\* two candidates: a point near the second one only carries the physics
\* model's flux, a point near neither carries the continuum
C9_Witness ==
    /\ op = "evaluate"
    /\ outcome.kind = "ret"
    /\ n_planets(tm.lc) = 2
    /\ \E j \in DOMAIN outcome.val :
          /\ NearOnly(tm, j, 2)
          /\ outcome.val[j] = physOut.flux[Rank(evaluate_close(tm.lc, tm.width), j)]
          /\ outcome.val[j] # arg[1]
    /\ \E j \in DOMAIN outcome.val : ~Near(tm, j) /\ outcome.val[j] = arg[1]


(***************************************************************************)
(* Claims about samples, fits and persistence (checked under SpecStore)    *)
(***************************************************************************)
Model(i) == objs[i][1]

\* the table the model's newest source of samples gives: the latest sampling
\* run's chain, or the loaded table of a model no run was made on
NewestTable(o) == IF o.sampler # None THEN _make_samples(o)._samples ELSE o._samples

\* C5: the samples accessor returns the table of the most recent sampling run
\* (or the loaded table when no run followed the load): a new run invalidates
\* the cached or loaded table.
C5_SamplesFollowLatestRun ==
    (last.op = "samples" /\ last.kind = "ret") =>
        last.val = NewestTable(Model(last.obj))

\* C6: on a model made by the constructor on which no sampling run completed
\* (point-estimate fits or not), accessing samples raises the missing-results
\* error; after a completed sampling run, or on a loaded model, it returns a
\* table.
C6_SamplesNeedRunOrLoad ==
    /\ \A i \in Names :
          objs[i] # None =>
              LET r == samples(Model(i))
                  h == hist[i][1]
              IN  /\ (h.origin = "init" /\ ~h.ran) => r.kind = "AttributeError"
                  /\ (h.ran \/ h.origin = "load") => (r.kind = "ret" /\ r.val # None)
    /\ last.op = "samples" =>
          LET h == hist[last.obj][1]
          IN  /\ (h.origin = "init" /\ ~h.ran) => last.kind = "AttributeError"
              /\ (h.ran \/ h.origin = "load") => (last.kind = "ret" /\ last.val # None)

\* samples was asked of a model that only has a point estimate, and raised
C6_Witness ==
    /\ last.op = "samples"
    /\ last.kind = "AttributeError"
    /\ Model(last.obj)._bestfit # None
    /\ ~hist[last.obj][1].ran

HasSamples(o) == o.sampler # None \/ o._samples # None

\* what a save of model o leaves at a path
SavedGroup(o) ==
    [samples |-> samples(o).val[1],
     attrs |-> [width |-> o.width, continuum_method |-> o.continuum_method,
                lc_type |-> o.lc.cls],
     lc |-> Some(o.lc)]

\* C7: a save_hdf of a model's sample table to a path that exists in the file
\* raises the conflict error when neither overwrite nor append is asked; with
\* overwrite it succeeds and the file then holds the saved model's table and
\* configuration at that path and none of the prior content; with append (and
\* no overwrite) it does not raise; to a path that does not exist the conflict
\* error is never raised.
C7_SaveConflict ==
    [][last'.op = "save_hdf" =>
        LET o == Model(last'.obj)
            existed == file.exists /\ PathIn(file, last'.path)
        IN  /\ (existed /\ ~last'.overwrite /\ ~last'.append) => last'.kind = "IOError"
            /\ (existed /\ last'.overwrite /\ HasSamples(o)) =>
                  /\ last'.kind = "ok"
                  /\ file'.exists
                  /\ file'.nodes = [q \in Paths |->
                        IF q = last'.path THEN Some(SavedGroup(o)) ELSE None]
            /\ (existed /\ last'.append /\ ~last'.overwrite /\ HasSamples(o)) =>
                  last'.kind = "ok"
            /\ ~existed => last'.kind # "IOError"]_vars

\* an overwriting save to a path that existed, in a file that also held
\* another path, succeeded and left the one group
C7_Witness ==
    /\ last.op = "save_hdf"
    /\ last.existed
    /\ last.overwrite
    /\ last.others
    /\ last.kind = "ok"
    /\ file.nodes[last.path] = Some(SavedGroup(Model(last.obj)))
    /\ \A q \in Paths \ {last.path} : file.nodes[q] = None

C10_FailedSaveLeavesFile ==
    [][(last'.op = "save_hdf" /\ last'.kind \in {"IOError", "AttributeError"})
          => file' = file]_vars


====
